---- MODULE Spec2Model ----
\* A model of the store of useStore.js (src/unnamed/part_003): createStore with
\* its closure state (storeState, listeners), setState / getState / subscribe,
\* the useStore hook and useGlobalStore, together with the writes the example
\* components issue (Counter.increment, Grandchild.reset).
\*
\* setState is modelled step by step (commit, one step per listener call,
\* return) because several properties speak about the instants inside a
\* notification pass.  The JavaScript run-to-completion rule is kept by the
\* guards: while a call is on the stack nothing else runs, except what the
\* listener that is currently executing does itself.
EXTENDS Integers, Sequences, FiniteSets, TLC

\* ---------------------------------------------------------------- bounds
MaxCount == 3
NumListeners == 2
MaxWrites == 3
MaxReentries == 1

\* ---------------------------------------------------------------- values
\* The application state: an object with a count (store.js).
State == [count : 0..MaxCount]

\* store.js: const initialState = { count: 0 }
initialState == [count |-> 0]

\* Listener references (callbacks handed to subscribe); 0 is "no listener".
Listeners == 1..NumListeners

NoListener == 0

\* The consumers: the components of the example that call useGlobalStore.
Bindings == {"Counter", "Grandchild"}

\* A JavaScript number, as a value of its own kind beside the state objects.
Num(n) == [num |-> n]

\* The selectors in use: (state) => state.count of Counter and Grandchild, and
\* useStore's default (state) => state.
Selectors == {"count", "identity"}

Select(selector, state) == IF selector = "count" THEN Num(state.count) ELSE state

\* The listener references useStore creates: one new closure per effect run.
\* A consumer holds at most one at a time, so two references per consumer
\* (the registered one and the next one) are all that are ever alive.
HookListeners == (NumListeners + 1)..(NumListeners + 4)

FirstListener(b) == IF b = "Counter" THEN NumListeners + 1 ELSE NumListeners + 3

\* Counter.increment's updater: (state) => ({ ...state, count: state.count + 1 })
\* (faulty variant: count: state.count++ keeps the old count)
incrementPostfix(state) == state

increment(state) == [state EXCEPT !.count = state.count + 1]

\* Grandchild.reset's updater: (state) => ({ ...state, count: 0 })
\* (faulty variant: steps the count down instead of zeroing it)
resetDecrement(state) == [state EXCEPT !.count = IF state.count > 0 THEN state.count - 1 ELSE 0]

reset(state) == [state EXCEPT !.count = 0]

\* The arguments setState is called with: a function (typeof "function") or
\* any other value, here a literal state.
Updaters ==
    {[isFunction |-> TRUE, fn |-> f, value |-> initialState] : f \in {"increment", "reset"}}
    \cup {[isFunction |-> FALSE, fn |-> "none", value |-> v] : v \in State}

\* Calling the function newState with the previous state.
Call(fn, prev) == IF fn = "increment" THEN increment(prev) ELSE reset(prev)

\* The counter is kept inside 0..MaxCount: increment is not issued at MaxCount.
InBounds(u, prev) == ~(u.isFunction /\ u.fn = "increment" /\ prev.count >= MaxCount)

\* ---------------------------------------------------------------- state
VARIABLES
    storeState,   \* createStore: let storeState
    listeners,    \* createStore: the Set listeners, in insertion order
    stack,        \* the setState calls in progress, innermost last
    handles,      \* listeners for which subscribe has returned an unsubscribe function
    dead,         \* history: listeners unsubscribed and not subscribed again since
    committed,    \* history: the state the most recently begun setState call asked for
    latestArgs,   \* history: the arguments the most recently begun call passed to listeners
    reentries,    \* history: number of calls into the store made by executing listeners
    s0,           \* journal: the initialState createStore was called with
    writes,       \* journal: number of setState calls begun
    onlyIncrements, \* journal: every call so far passed Counter's increment updater
    fromStart,    \* journal: listeners subscribed before the first call and never unsubscribed
    received,     \* journal: per listener, the states given to it since it subscribed
    phase,        \* per consumer: "unmounted", "rendered", "attached" or "stale"
    sel,          \* per consumer: the selector of its latest render
    lsel,         \* per consumer: the selector its registered listener closes over
    lid,          \* per consumer: its registered listener (NoListener when none)
    local,        \* per consumer: the useState value of useStore (the derived value)
    thrown,       \* per consumer: its latest useGlobalStore call threw
    scope,        \* per consumer: what useContext(StoreContext) gave its latest call
    typeError,    \* a call of a method the store handle does not have has thrown
    scheduled,    \* consumers whose latest notification made React schedule a re-render
    other,        \* the closure of a second createStore call, and what its latest call invoked
    before,       \* history: pairs <<a, b>> of registered listeners, a registered before b
    called,       \* history: listeners of which an unsubscribe function has been called
    repeat,       \* history: the listener of the unsubscribe function just called a second time
    twice,        \* history: registered listeners that were subscribed again while registered
    handed,       \* history: consumers whose listener called setStateLocal in the latest pass
    failed        \* history: a setState call has ended with its updater's exception

storeVars == <<storeState, listeners, stack, handles, dead, committed, latestArgs, reentries>>

journalVars == <<s0, writes, onlyIncrements, fromStart, received>>

hookVars == <<phase, sel, lsel, lid, local, thrown, scope>>

noteVars == <<handed, failed>>

sideVars == <<typeError, scheduled, other, before, called, repeat, twice, noteVars>>

vars == <<storeVars, journalVars, hookVars, sideVars>>

\* ---------------------------------------------------------------- helpers
Range(seq) == {seq[i] : i \in 1..Len(seq)}

Top == stack[Len(stack)]

Idle == stack = <<>>

\* A listener is executing (it was called by the innermost pass and has not returned).
InListener == stack /= <<>> /\ Top.running /= NoListener

\* const getState = () => storeState
getState == storeState

\* What a call setState(newState) is asked to commit when the state is prev.
Requested(newState, prev) ==
    IF newState.isFunction
    THEN (IF newState.fn = "increment" THEN [count |-> prev.count + 1] ELSE [count |-> 0])
    ELSE newState.value

\* setState's first statement: the value assigned to storeState,
\* typeof newState === "function" ? newState(storeState) : newState.
\* (faulty variant: a function argument is not applied)
NextStateIgnoringFunction(newState, prev) == IF newState.isFunction THEN prev ELSE newState.value

NextState(newState, prev) == IF newState.isFunction THEN Call(newState.fn, prev) ELSE newState.value

\* Set.prototype.add: appends unless the reference is already an element.
\* (faulty variant: new entries are put in front, as with unshift on an array)
SetAddFront(set, listener) == IF listener \in Range(set) THEN set ELSE <<listener>> \o set

\* (faulty variant: an array with push, which keeps a second entry)
SetAddAlways(set, listener) == Append(set, listener)

SetAdd(set, listener) == IF listener \in Range(set) THEN set ELSE Append(set, listener)

\* Set.prototype.delete: removes the element, keeping the order of the others.
\* (faulty variant: the returned function drops the newest entry, as pop on an array)
SetDeleteLast(set, listener) == IF set = <<>> THEN set ELSE SubSeq(set, 1, Len(set) - 1)

\* (faulty variant: the returned function removes nothing)
SetDeleteNothing(set, listener) == set

SetDelete(set, listener) == SelectSeq(set, LAMBDA x : x /= listener)

\* Position of an element of a sequence without duplicates (0 when absent).
IndexOf(set, listener) ==
    IF listener \in Range(set) THEN CHOOSE i \in 1..Len(set) : set[i] = listener ELSE 0

\* Set.prototype.forEach keeps a cursor into the entries: a deletion in front
\* of the cursor does not make the iteration skip or repeat another entry.
AfterDelete(frame, pos) ==
    IF pos /= 0 /\ pos <= frame.idx THEN [frame EXCEPT !.idx = frame.idx - 1] ELSE frame

\* A new call began: no call in progress is the latest any more.
MarkOlder(stk) == [i \in 1..Len(stk) |-> [stk[i] EXCEPT !.latest = FALSE]]

\* The argument the forEach callback passes: listener(storeState) reads the
\* variable when the listener is called.
\* (faulty variant: the value computed at the call is captured and passed)
ListenerArgCaptured(frame) == frame.value

\* (faulty variant: the listeners are notified before the assignment)
ListenerArgPrevious(frame) == frame.prev

ListenerArg(frame) == storeState

\* The entry forEach visits next.
\* (faulty variant: the pass does not advance through the entries)
NextListenerSkipping(frame) == listeners[Len(listeners)]

NextListener(frame) == listeners[frame.idx + 1]

\* forEach has visited every entry.
\* (faulty variant: a write that leaves the state as it was notifies no one)
PassDoneUnchanged(frame) ==
    /\ frame.running = NoListener
    /\ (frame.idx >= Len(listeners) \/ frame.value = frame.prev)

PassDone(frame) == frame.running = NoListener /\ frame.idx >= Len(listeners)

\* ---------------------------------------------------------------- createStore
\* createStore(initialState): storeState = initialState, listeners = new Set().
\* (faulty variant: seeds the store with the module's initialState)
CreateStoreIgnoringArgument(init) ==
    /\ storeState = initialState
    /\ listeners = <<>>

CreateStore(init) ==
    /\ storeState = init
    /\ listeners = <<>>

\* Nothing is in progress and nothing has happened yet.
Fresh(init) ==
    /\ stack = <<>>
    /\ handles = {}
    /\ dead = {}
    /\ committed = init
    /\ latestArgs = {}
    /\ reentries = 0
    /\ writes = 0
    /\ onlyIncrements = TRUE
    /\ fromStart = {}
    /\ received = [l \in Listeners |-> <<>>]

\* No component is mounted.
NoConsumers ==
    /\ phase = [b \in Bindings |-> "unmounted"]
    /\ sel = [b \in Bindings |-> "identity"]
    /\ lsel = [b \in Bindings |-> "identity"]
    /\ lid = [b \in Bindings |-> NoListener]
    /\ local = [b \in Bindings |-> Num(0)]
    /\ thrown = [b \in Bindings |-> FALSE]
    /\ scope = [b \in Bindings |-> "store"]

\* Nothing has been recorded beside the store and its consumers.
Aside ==
    /\ typeError = FALSE
    /\ scheduled = {}
    /\ before = {}
    /\ called = {}
    /\ repeat = NoListener
    /\ twice = {}
    /\ handed = {}
    /\ failed = FALSE

\* A second call createStore(init): a closure of its own, with its own
\* storeState and its own listeners.
CreateOther(init) == [storeState |-> init, listeners |-> <<>>, calls |-> <<>>]

\* Nothing operates on the second store.
Alone == other = CreateOther(initialState)

\* createStore(init) for any init; the journal's s0 is kept by the journalled
\* run only.
Init == \E init \in State : CreateStore(init) /\ Fresh(init) /\ s0 = initialState /\ NoConsumers /\ Aside /\ Alone

\* store.js: export const store = createStore(initialState).
InitApp == CreateStore(initialState) /\ Fresh(initialState) /\ s0 = initialState /\ NoConsumers /\ Aside /\ Alone

InitRun == \E init \in State : CreateStore(init) /\ Fresh(init) /\ s0 = init /\ NoConsumers /\ Aside /\ Alone

\* ---------------------------------------------------------------- setState
\* setState(newState), up to the start of forEach: compute and assign the next
\* state, then begin the pass over listeners.
SetStateCall(newState) ==
    /\ InBounds(newState, storeState)
    /\ storeState' = NextState(newState, storeState)
    /\ stack' = Append(MarkOlder(stack),
                       [idx |-> 0, running |-> NoListener, u |-> newState,
                        prev |-> storeState, value |-> storeState',
                        atStart |-> Range(listeners), seen |-> <<>>,
                        latest |-> TRUE])
    /\ committed' = Requested(newState, storeState)
    /\ latestArgs' = {}
    /\ UNCHANGED <<listeners, handles, dead>>

\* forEach calls the next listener with storeState.
InvokeStep ==
    /\ stack /= <<>>
    /\ Top.running = NoListener
    /\ Top.idx < Len(listeners)
    /\ LET l == NextListener(Top)
           arg == ListenerArg(Top)
       IN /\ stack' = [stack EXCEPT ![Len(stack)] =
                          [Top EXCEPT !.idx = Top.idx + 1, !.running = l,
                                      !.seen = Append(Top.seen,
                                          [listener |-> l, arg |-> arg,
                                           current |-> committed,
                                           unsubscribed |-> l \in dead])]]
          /\ latestArgs' = IF Top.latest THEN latestArgs \cup {arg} ELSE latestArgs
    /\ UNCHANGED <<storeState, listeners, handles, dead, committed, reentries>>

\* The call forEach has just made: the listener and its argument.
Called == stack'[Len(stack)].seen[Len(Top.seen) + 1]

\* The listener that was called returns to forEach.
ListenerReturn ==
    /\ InListener
    /\ stack' = [stack EXCEPT ![Len(stack)] = [Top EXCEPT !.running = NoListener]]
    /\ UNCHANGED <<storeState, listeners, handles, dead, committed, latestArgs, reentries>>
    /\ UNCHANGED <<journalVars, hookVars, sideVars>>

\* forEach has no entry left: setState returns to its caller.
Return ==
    /\ stack /= <<>>
    /\ PassDone(Top)
    /\ stack' = SubSeq(stack, 1, Len(stack) - 1)
    /\ UNCHANGED <<storeState, listeners, handles, dead, committed, latestArgs, reentries>>
    /\ UNCHANGED <<journalVars, hookVars, sideVars>>

\* ---------------------------------------------------------------- subscribe
\* subscribe(listener): listeners.add(listener); returns the unsubscribe function.
SubscribeCall(listener) ==
    /\ listeners' = SetAdd(listeners, listener)
    /\ handles' = handles \cup {listener}
    /\ dead' = dead \ {listener}
    /\ UNCHANGED <<storeState, stack, committed, latestArgs>>

\* The function subscribe returned: () => listeners.delete(listener).
UnsubscribeCall(listener) ==
    /\ listener \in handles
    /\ listeners' = SetDelete(listeners, listener)
    /\ dead' = dead \cup {listener}
    /\ stack' = [i \in 1..Len(stack) |-> AfterDelete(stack[i], IndexOf(listeners, listener))]
    /\ UNCHANGED <<storeState, handles, committed, latestArgs>>

\* ---------------------------------------------------------------- the store, called from outside
\* A caller outside any notification pass (an event handler) calls setState.
SetState(newState) ==
    /\ Idle
    /\ SetStateCall(newState)
    /\ UNCHANGED <<reentries, journalVars, hookVars, sideVars>>

\* The listener called calls nothing back.
Invoke == InvokeStep /\ UNCHANGED <<journalVars, hookVars, sideVars>>

Subscribe(listener) ==
    /\ Idle
    /\ SubscribeCall(listener)
    /\ UNCHANGED <<reentries, journalVars, hookVars, sideVars>>

Unsubscribe(listener) ==
    /\ Idle
    /\ UnsubscribeCall(listener)
    /\ UNCHANGED <<reentries, journalVars, hookVars, sideVars>>

Next ==
    \/ \E u \in Updaters : SetState(u)
    \/ Invoke
    \/ ListenerReturn
    \/ Return
    \/ \E l \in Listeners : Subscribe(l)
    \/ \E l \in Listeners : Unsubscribe(l)

Spec == Init /\ [][Next]_vars

\* ---------------------------------------------------------------- listeners that call back
\* The listener that is executing calls setState, subscribe or an unsubscribe
\* function itself, before it returns.
NestedSetState(newState) ==
    /\ InListener
    /\ reentries < MaxReentries
    /\ SetStateCall(newState)
    /\ reentries' = reentries + 1
    /\ UNCHANGED <<journalVars, hookVars, sideVars>>

NestedSubscribe(listener) ==
    /\ InListener
    /\ reentries < MaxReentries
    /\ SubscribeCall(listener)
    /\ reentries' = reentries + 1
    /\ UNCHANGED <<journalVars, hookVars, sideVars>>

NestedUnsubscribe(listener) ==
    /\ InListener
    /\ reentries < MaxReentries
    /\ UnsubscribeCall(listener)
    /\ reentries' = reentries + 1
    /\ UNCHANGED <<journalVars, hookVars, sideVars>>

NextReentrant ==
    \/ \E u \in Updaters : SetState(u)
    \/ Invoke
    \/ ListenerReturn
    \/ Return
    \/ \E l \in Listeners : Subscribe(l)
    \/ \E l \in Listeners : Unsubscribe(l)
    \/ \E u \in Updaters : NestedSetState(u)
    \/ \E l \in Listeners : NestedSubscribe(l)
    \/ \E l \in Listeners : NestedUnsubscribe(l)

SpecReentrant == Init /\ [][NextReentrant]_vars

\* ---------------------------------------------------------------- a journalled run
\* The store driven by the handlers of the example components (increment,
\* reset) with recording listeners: the journal keeps the number of calls and
\* what every listener was given since it subscribed.
RunSetState(newState) ==
    /\ Idle
    /\ writes < MaxWrites
    /\ SetStateCall(newState)
    /\ writes' = writes + 1
    /\ onlyIncrements' = (onlyIncrements /\ newState.isFunction /\ newState.fn = "increment")
    /\ UNCHANGED <<reentries, s0, fromStart, received, hookVars, sideVars>>

RunInvoke ==
    /\ InvokeStep
    /\ received' = [received EXCEPT ![Called.listener] = Append(@, Called.arg)]
    /\ UNCHANGED <<s0, writes, onlyIncrements, fromStart, hookVars, sideVars>>

RunSubscribe(listener) ==
    /\ Idle
    /\ SubscribeCall(listener)
    /\ fromStart' = IF writes = 0 THEN fromStart \cup {listener} ELSE fromStart
    /\ UNCHANGED <<reentries, s0, writes, onlyIncrements, received, hookVars, sideVars>>

RunUnsubscribe(listener) ==
    /\ Idle
    /\ UnsubscribeCall(listener)
    /\ fromStart' = fromStart \ {listener}
    /\ received' = [received EXCEPT ![listener] = <<>>]
    /\ UNCHANGED <<reentries, s0, writes, onlyIncrements, hookVars, sideVars>>

NextRun ==
    \/ \E u \in {x \in Updaters : x.isFunction} : RunSetState(u)
    \/ RunInvoke
    \/ ListenerReturn
    \/ Return
    \/ \E l \in Listeners : RunSubscribe(l)
    \/ \E l \in Listeners : RunUnsubscribe(l)

SpecRun == InitRun /\ [][NextRun]_vars

\* ---------------------------------------------------------------- useStore, useGlobalStore
\* useStore's parameter default: (selector = (state) => state).
WithDefault(selector) == IF selector = "undefined" THEN "identity" ELSE selector

\* useGlobalStore's guard: if (!store).
\* (faulty variant: the guard is missing)
StoreMissingNever(store) == FALSE

StoreMissing(store) == store = "null"

\* The consumer whose effect registered the listener, and the selector that
\* listener's closure holds.
Owner(listener) == CHOOSE b \in Bindings : lid[b] = listener

\* (faulty variant: every listener uses one shared selector)
ListenerSelectorOfFirst(listener) == lsel[CHOOSE b \in Bindings : lid[b] /= NoListener]

ListenerSelector(listener) == lsel[Owner(listener)]

\* The effect's own call listener(storeState): the value it hands setStateLocal.
\* (faulty variant: the effect subscribes without calling the listener)
MountUpdateMissing(b) == local[b]

MountUpdate(b) == Select(sel[b], storeState)

\* const listener = (newState) => { ... }: a reference no one holds yet.
NewListener(b) == IF lid[b] = FirstListener(b) THEN FirstListener(b) + 1 ELSE FirstListener(b)

\* A component renders for the first time and calls useGlobalStore(selector);
\* store is what useContext(StoreContext) returns there.  Without a store the
\* call throws; otherwise store.useStore(selector) runs useState's initializer
\* and schedules the effect.
UseGlobalStore(b, selector, store) ==
    /\ Idle
    /\ phase[b] = "unmounted"
    /\ scope' = [scope EXCEPT ![b] = store]
    /\ IF StoreMissing(store)
       THEN /\ thrown' = [thrown EXCEPT ![b] = TRUE]
            /\ UNCHANGED <<phase, sel, local>>
       ELSE /\ thrown' = [thrown EXCEPT ![b] = FALSE]
            /\ phase' = [phase EXCEPT ![b] = "rendered"]
            /\ sel' = [sel EXCEPT ![b] = WithDefault(selector)]
            /\ local' = [local EXCEPT ![b] = Select(WithDefault(selector), storeState)]
    /\ UNCHANGED <<lsel, lid, storeVars, journalVars, sideVars>>

\* A mounted component renders again and passes a selector of a new identity
\* (the components pass an inline arrow function): useState keeps its value,
\* the effect's dependency [selector] changed, so the effect is due again.
Render(b, selector) ==
    /\ Idle
    /\ phase[b] = "attached"
    /\ phase' = [phase EXCEPT ![b] = "stale"]
    /\ sel' = [sel EXCEPT ![b] = WithDefault(selector)]
    /\ UNCHANGED <<lsel, lid, local, thrown, scope, storeVars, journalVars, sideVars>>

\* The effect runs: the previous run's cleanup (unsubscribe) if there was one,
\* then subscribe(listener) with a new listener and listener(storeState).
Effect(b) ==
    /\ Idle
    /\ phase[b] \in {"rendered", "stale"}
    /\ LET old == lid[b]
           l == NewListener(b)
       IN /\ listeners' = SetAdd(SetDelete(listeners, old), l)
          /\ handles' = handles \cup {l}
          /\ dead' = (IF old = NoListener THEN dead ELSE dead \cup {old}) \ {l}
          /\ lid' = [lid EXCEPT ![b] = l]
    /\ lsel' = [lsel EXCEPT ![b] = sel[b]]
    /\ local' = [local EXCEPT ![b] = MountUpdate(b)]
    /\ phase' = [phase EXCEPT ![b] = "attached"]
    /\ UNCHANGED <<storeState, stack, committed, latestArgs, reentries>>
    /\ UNCHANGED <<sel, thrown, scope, journalVars, sideVars>>

\* The component unmounts: the effect's cleanup runs if the effect has run,
\* and the hook's state is discarded.
Unmount(b) ==
    /\ Idle
    /\ phase[b] /= "unmounted"
    /\ listeners' = SetDelete(listeners, lid[b])
    /\ dead' = IF lid[b] = NoListener THEN dead ELSE dead \cup {lid[b]}
    /\ lid' = [lid EXCEPT ![b] = NoListener]
    /\ phase' = [phase EXCEPT ![b] = "unmounted"]
    /\ sel' = [sel EXCEPT ![b] = "identity"]
    /\ lsel' = [lsel EXCEPT ![b] = "identity"]
    /\ local' = [local EXCEPT ![b] = Num(0)]
    /\ UNCHANGED <<storeState, stack, handles, committed, latestArgs, reentries>>
    /\ UNCHANGED <<thrown, scope, journalVars, sideVars>>

\* forEach calls a listener of useStore: selector(newState), setStateLocal.
InvokeHook ==
    /\ InvokeStep
    /\ local' = [local EXCEPT ![Owner(Called.listener)] =
                    Select(ListenerSelector(Called.listener), Called.arg)]
    /\ UNCHANGED <<phase, sel, lsel, lid, thrown, scope, journalVars, sideVars>>

NextApp ==
    \/ \E b \in Bindings, s \in Selectors \cup {"undefined"}, c \in {"store", "null"} :
          UseGlobalStore(b, s, c)
    \/ \E b \in Bindings, s \in Selectors \cup {"undefined"} : Render(b, s)
    \/ \E b \in Bindings : Effect(b)
    \/ \E b \in Bindings : Unmount(b)
    \/ \E u \in {x \in Updaters : x.isFunction} : SetState(u)
    \/ InvokeHook
    \/ ListenerReturn
    \/ Return

SpecApp == InitApp /\ [][NextApp]_vars

\* ---------------------------------------------------------------- the store handle
\* createStore's return value: return { getState, setState, useStore }.
\* (faulty variant: the object also carries subscribe)
HandleWithSubscribe == {"getState", "setState", "useStore", "subscribe"}

Handle == {"getState", "setState", "useStore"}

\* A client that holds the handle evaluates store.subscribe(listener): the call
\* of a property the object does not have throws a TypeError; the call of a
\* property it has runs that function.
HandleSubscribe(listener) ==
    /\ Idle
    /\ IF "subscribe" \in Handle
       THEN /\ SubscribeCall(listener)
            /\ UNCHANGED typeError
       ELSE /\ typeError' = TRUE
            /\ UNCHANGED <<storeState, listeners, stack, handles, dead, committed, latestArgs>>
    /\ UNCHANGED <<reentries, journalVars, hookVars, scheduled, other>>
    /\ UNCHANGED <<before, called, repeat, twice, noteVars>>

\* The example application together with a client that holds only the handle.
NextHandle ==
    \/ \E b \in Bindings, s \in Selectors \cup {"undefined"}, c \in {"store", "null"} :
          UseGlobalStore(b, s, c)
    \/ \E b \in Bindings, s \in Selectors \cup {"undefined"} : Render(b, s)
    \/ \E b \in Bindings : Effect(b)
    \/ \E b \in Bindings : Unmount(b)
    \/ \E u \in {x \in Updaters : x.isFunction} : SetState(u)
    \/ InvokeHook
    \/ ListenerReturn
    \/ Return
    \/ \E l \in Listeners : HandleSubscribe(l)

SpecHandle == InitApp /\ [][NextHandle]_vars

\* ---------------------------------------------------------------- re-renders
\* Object.is, by which React's useState setter compares the value it is given
\* with the one it holds: numbers by value, objects by reference.  The state a
\* write commits is a new object ({ ...state, ... } in both updaters), so it is
\* the same reference as no object a consumer held before the write.
ObjectIs(value, current) == value = current /\ value \in {Num(n) : n \in 0..MaxCount}

\* setStateLocal(selectedState): React schedules a re-render of the component
\* unless the value is the one it holds already.
SchedulesRender(value, current) == ~ObjectIs(value, current)

\* forEach calls a listener of useStore, as InvokeHook, and React's answer to
\* the listener's setStateLocal call is recorded.
InvokeRender ==
    /\ InvokeStep
    /\ LET b == Owner(Called.listener)
           selectedState == Select(ListenerSelector(Called.listener), Called.arg)
       IN /\ local' = [local EXCEPT ![b] = selectedState]
          /\ scheduled' = IF SchedulesRender(selectedState, local[b])
                          THEN scheduled \cup {b}
                          ELSE scheduled \ {b}
    /\ UNCHANGED <<phase, sel, lsel, lid, thrown, scope, journalVars, typeError, other>>
    /\ UNCHANGED <<before, called, repeat, twice, noteVars>>

NextRender ==
    \/ \E b \in Bindings, s \in Selectors \cup {"undefined"}, c \in {"store", "null"} :
          UseGlobalStore(b, s, c)
    \/ \E b \in Bindings, s \in Selectors \cup {"undefined"} : Render(b, s)
    \/ \E b \in Bindings : Effect(b)
    \/ \E b \in Bindings : Unmount(b)
    \/ \E u \in {x \in Updaters : x.isFunction} : SetState(u)
    \/ InvokeRender
    \/ ListenerReturn
    \/ Return

SpecRender == InitApp /\ [][NextRender]_vars

\* ---------------------------------------------------------------- two stores
\* The listener set the second store's setState iterates and its subscribe
\* fills: the const listeners of its own createStore call.
\* (faulty variant: listeners is declared once, outside createStore)
OtherListenersShared == listeners

OtherListeners == other.listeners

\* setState of the second store, the whole call: assign, then call every one
\* of its listeners with the new state.
OtherSetState(newState) ==
    /\ Idle
    /\ InBounds(newState, other.storeState)
    /\ LET next == NextState(newState, other.storeState)
       IN other' = [other EXCEPT !.storeState = next,
                                 !.calls = [i \in 1..Len(OtherListeners) |->
                                              [listener |-> OtherListeners[i], arg |-> next]]]
    /\ UNCHANGED <<storeVars, journalVars, hookVars, typeError, scheduled>>
    /\ UNCHANGED <<before, called, repeat, twice, noteVars>>

\* subscribe of the second store, and the function it returns.
OtherSubscribe(listener) ==
    /\ Idle
    /\ other' = [other EXCEPT !.listeners = SetAdd(OtherListeners, listener), !.calls = <<>>]
    /\ UNCHANGED <<storeVars, journalVars, hookVars, typeError, scheduled>>
    /\ UNCHANGED <<before, called, repeat, twice, noteVars>>

OtherUnsubscribe(listener) ==
    /\ Idle
    /\ listener \in Range(other.listeners)
    /\ other' = [other EXCEPT !.listeners = SetDelete(OtherListeners, listener), !.calls = <<>>]
    /\ UNCHANGED <<storeVars, journalVars, hookVars, typeError, scheduled>>
    /\ UNCHANGED <<before, called, repeat, twice, noteVars>>

InitTwo ==
    \E init \in State, init2 \in State :
        /\ CreateStore(init) /\ Fresh(init) /\ s0 = initialState /\ NoConsumers /\ Aside
        /\ other = CreateOther(init2)

NextTwo ==
    \/ \E u \in Updaters : SetState(u)
    \/ Invoke
    \/ ListenerReturn
    \/ Return
    \/ \E l \in Listeners : Subscribe(l)
    \/ \E l \in Listeners : Unsubscribe(l)
    \/ \E u \in {x \in Updaters : x.isFunction} : OtherSetState(u)
    \/ \E l \in Listeners : OtherSubscribe(l)
    \/ \E l \in Listeners : OtherUnsubscribe(l)

SpecTwo == InitTwo /\ [][NextTwo]_vars

\* ---------------------------------------------------------------- a client of subscribe
\* The store used by callers that keep the functions subscribe returns, with
\* the history of their calls: which listener was registered before which,
\* which unsubscribe functions have been called, and which listeners were
\* subscribed again while registered.
Registered == Range(listeners)

TracedSubscribe(listener) ==
    /\ Idle
    /\ SubscribeCall(listener)
    /\ before' = IF listener \in Registered
                 THEN before
                 ELSE before \cup {<<a, listener>> : a \in Registered}
    /\ twice' = IF listener \in Registered THEN twice \cup {listener} ELSE twice
    /\ UNCHANGED <<called, repeat>>
    /\ UNCHANGED <<reentries, journalVars, hookVars, typeError, scheduled, other, noteVars>>

\* A listener leaves the history of the registered ones.
Forget(pairs, listener) == {p \in pairs : p[1] /= listener /\ p[2] /= listener}

\* An unsubscribe function is called for the first time.
TracedUnsubscribe(listener) ==
    /\ Idle
    /\ UnsubscribeCall(listener)
    /\ before' = Forget(before, listener)
    /\ twice' = twice \ {listener}
    /\ called' = called \cup {listener}
    /\ repeat' = NoListener
    /\ UNCHANGED <<reentries, journalVars, hookVars, typeError, scheduled, other, noteVars>>

\* An unsubscribe function that has been called before is called again.
UnsubscribeAgain(listener) ==
    /\ Idle
    /\ listener \in called
    /\ UnsubscribeCall(listener)
    /\ before' = Forget(before, listener)
    /\ twice' = twice \ {listener}
    /\ repeat' = listener
    /\ UNCHANGED called
    /\ UNCHANGED <<reentries, journalVars, hookVars, typeError, scheduled, other, noteVars>>

NextClient ==
    \/ \E u \in Updaters : SetState(u)
    \/ Invoke
    \/ ListenerReturn
    \/ Return
    \/ \E l \in Listeners : TracedSubscribe(l)
    \/ \E l \in Listeners : TracedUnsubscribe(l)
    \/ \E l \in Listeners : UnsubscribeAgain(l)

SpecClient == Init /\ [][NextClient]_vars

\* ---------------------------------------------------------------- what the listener hands on
\* useStore's listener: const selectedState = selector(newState);
\* setStateLocal(selectedState), with no condition between the two.
\* (faulty variant: the listener keeps the last value and skips setStateLocal
\* when the selector returns the same)
HandsOnIfChanged(selectedState, current) == selectedState /= current

HandsOn(selectedState, current) == TRUE

\* A click handler calls setState: a new pass, in which no listener has run yet.
ClickSetState(newState) ==
    /\ Idle
    /\ SetStateCall(newState)
    /\ handed' = {}
    /\ UNCHANGED <<reentries, journalVars, hookVars>>
    /\ UNCHANGED <<typeError, scheduled, other, before, called, repeat, twice, failed>>

\* forEach calls a listener of useStore; what it does with the selector's
\* result is recorded.
InvokeListener ==
    /\ InvokeStep
    /\ LET b == Owner(Called.listener)
           selectedState == Select(ListenerSelector(Called.listener), Called.arg)
       IN IF HandsOn(selectedState, local[b])
          THEN /\ local' = [local EXCEPT ![b] = selectedState]
               /\ handed' = handed \cup {b}
          ELSE UNCHANGED <<local, handed>>
    /\ UNCHANGED <<phase, sel, lsel, lid, thrown, scope, journalVars>>
    /\ UNCHANGED <<typeError, scheduled, other, before, called, repeat, twice, failed>>

NextListeners ==
    \/ \E b \in Bindings, s \in Selectors \cup {"undefined"}, c \in {"store", "null"} :
          UseGlobalStore(b, s, c)
    \/ \E b \in Bindings, s \in Selectors \cup {"undefined"} : Render(b, s)
    \/ \E b \in Bindings : Effect(b)
    \/ \E b \in Bindings : Unmount(b)
    \/ \E u \in {x \in Updaters : x.isFunction} : ClickSetState(u)
    \/ InvokeListener
    \/ ListenerReturn
    \/ Return

SpecListeners == InitApp /\ [][NextListeners]_vars

\* ---------------------------------------------------------------- an updater that throws
\* A function whose call newState(storeState) throws.
ThrowingUpdater == [isFunction |-> TRUE, fn |-> "throws", value |-> initialState]

\* The statements of setState that still run when newState(storeState)
\* throws: the exception leaves the right-hand side of the assignment and the
\* function, so neither the assignment nor listeners.forEach is reached.
\* (faulty variant: the pass sits in a finally block)
RunsAfterThrowFinally == {"forEach"}

RunsAfterThrow == {}

\* setState(newState) with a function that throws, called from outside any pass.
SetStateThrows ==
    /\ Idle
    /\ failed' = TRUE
    /\ storeState' = IF "assign" \in RunsAfterThrow THEN ThrowingUpdater.value ELSE storeState
    /\ IF "forEach" \in RunsAfterThrow
       THEN /\ stack' = Append(MarkOlder(stack),
                               [idx |-> 0, running |-> NoListener, u |-> ThrowingUpdater,
                                prev |-> storeState, value |-> storeState',
                                atStart |-> Range(listeners), seen |-> <<>>,
                                latest |-> TRUE])
            /\ latestArgs' = {}
       ELSE UNCHANGED <<stack, latestArgs>>
    /\ UNCHANGED <<listeners, handles, dead, committed, reentries>>
    /\ UNCHANGED <<journalVars, hookVars>>
    /\ UNCHANGED <<typeError, scheduled, other, before, called, repeat, twice, handed>>

NextThrow ==
    \/ \E u \in Updaters : SetState(u)
    \/ Invoke
    \/ ListenerReturn
    \/ Return
    \/ \E l \in Listeners : Subscribe(l)
    \/ \E l \in Listeners : Unsubscribe(l)
    \/ SetStateThrows

SpecThrow == Init /\ [][NextThrow]_vars

\* ================================================================ properties
\* The calls a pass has made to one listener, and the arguments of all its calls.
CalledOnce(frame, l) == Cardinality({j \in 1..Len(frame.seen) : frame.seen[j].listener = l}) = 1

GivenOnly(frame, v) == \A j \in 1..Len(frame.seen) : frame.seen[j].arg = v

IsReset(frame) == frame.u.isFunction /\ frame.u.fn = "reset"

\* C1 (write propagation): when a call setState(s1) has finished its pass and
\* is about to return, getState() is s1 and every listener that was subscribed
\* when the call began has been called exactly once, with s1.
C1_WritePropagation ==
    (stack /= <<>> /\ PassDone(Top)) =>
        LET s1 == Requested(Top.u, Top.prev)
        IN /\ getState = s1
           /\ GivenOnly(Top, s1)
           /\ \A l \in Top.atStart : CalledOnce(Top, l)

C1_Witness ==
    /\ stack /= <<>>
    /\ PassDone(Top)
    /\ Cardinality(Top.atStart) >= 2
    /\ Top.prev /= getState

\* C2 (state/notification consistency): at every instant, also inside a pass
\* and inside a setState issued by a listener, getState() is the state the most
\* recently begun call asked for, every listener that call has called was given
\* exactly that state, and every call of a listener by any pass was given the
\* state that was current when the listener was called.
C2_Consistency ==
    /\ getState = committed
    /\ latestArgs \subseteq {committed}
    /\ \A i \in 1..Len(stack) : \A j \in 1..Len(stack[i].seen) :
          stack[i].seen[j].arg = stack[i].seen[j].current

\* An outer pass goes on after a listener's own setState has returned, and
\* hands the next listener the newer state.
C2_Witness ==
    /\ Len(stack) = 1
    /\ reentries > 0
    /\ \E j \in 1..Len(Top.seen) : Top.seen[j].arg /= Top.value

\* C4 (unsubscribe stops delivery): a listener whose unsubscribe function has
\* been called (and that has not been subscribed again) is called by no pass;
\* it is out of the listener set, and every listener that was subscribed and
\* not unsubscribed is still in it.
C4_UnsubscribeStopsDelivery ==
    /\ \A i \in 1..Len(stack) : \A j \in 1..Len(stack[i].seen) : ~stack[i].seen[j].unsubscribed
    /\ dead \cap Range(listeners) = {}
    /\ (handles \ dead) \subseteq Range(listeners)

\* A write begun after a listener was unsubscribed has notified another listener.
C4_Witness ==
    /\ stack /= <<>>
    /\ PassDone(Top)
    /\ Top.seen /= <<>>
    /\ \E l \in dead : l \notin Top.atStart

\* C5 (functional updater): a call setState(f) with a function f commits
\* f(p), p the state just before the call, and a call with any other value
\* commits that value; the listeners are called with the committed state.
C5_FunctionalUpdater ==
    \A i \in 1..Len(stack) :
        LET f == stack[i]
            expected == IF f.u.isFunction
                        THEN (IF f.u.fn = "increment" THEN [count |-> f.prev.count + 1]
                                                      ELSE [count |-> 0])
                        ELSE f.u.value
        IN /\ f.value = expected
           /\ getState = expected
           /\ GivenOnly(f, expected)

C5_Witness ==
    /\ stack /= <<>>
    /\ Top.u.isFunction
    /\ Top.u.fn = "increment"
    /\ Top.prev.count > 0
    /\ Len(Top.seen) >= 2

\* C9 (reset): from any count, Grandchild's reset leaves count 0, and every
\* listener subscribed at the call is called once, with the zeroed state, also
\* when the count was 0 already.
C9_Reset ==
    \A i \in 1..Len(stack) :
        IsReset(stack[i]) =>
            /\ getState.count = 0
            /\ \A j \in 1..Len(stack[i].seen) : stack[i].seen[j].arg.count = 0
            /\ PassDone(stack[i]) => \A l \in stack[i].atStart : CalledOnce(stack[i], l)

C9_Witness ==
    /\ stack /= <<>>
    /\ IsReset(Top)
    /\ PassDone(Top)
    /\ Top.prev.count = 0
    /\ Cardinality(Top.atStart) >= 2

\* C8 (increment scenario): from createStore({count: 0}), after n calls of
\* Counter's increment and nothing else written, getState() is {count: n} and
\* a listener subscribed before the first call has been given exactly the
\* counts 1, 2, ..., n, in that order.
C8_Increments ==
    (Idle /\ s0 = [count |-> 0] /\ onlyIncrements) =>
        /\ getState = [count |-> writes]
        /\ \A l \in fromStart : received[l] = [i \in 1..writes |-> [count |-> i]]

C8_Witness ==
    /\ Idle
    /\ s0 = [count |-> 0]
    /\ onlyIncrements
    /\ writes = 3
    /\ Cardinality(fromStart) >= 2

\* C10 (initial read): until the first write, getState() is the value
\* createStore was called with, whatever that value is.
C10_InitialRead == writes = 0 => getState = s0

C10_Witness ==
    /\ writes = 0
    /\ s0 = [count |-> MaxCount]
    /\ listeners /= <<>>
    /\ dead /= {}

\* C3 (binding consistency): when no write is in progress, every consumer
\* whose effect has run for its latest render holds selector(getState()).
C3_BindingConsistency ==
    Idle => \A b \in Bindings : phase[b] = "attached" => local[b] = Select(sel[b], getState)

C3_Witness ==
    /\ Idle
    /\ \A b \in Bindings : phase[b] = "attached"
    /\ sel["Counter"] /= sel["Grandchild"]
    /\ getState.count > 0

\* C7 (selector isolation): when a write's pass is complete, every consumer
\* with a registered listener holds its own selector's projection of the
\* committed state, whatever the other consumer's selector is, whether the
\* other is there, and in whichever order they subscribed.
C7_SelectorIsolation ==
    (stack /= <<>> /\ PassDone(Top)) =>
        \A b \in Bindings :
            lid[b] /= NoListener => local[b] = Select(lsel[b], Top.value)

\* Both consumers are subscribed with different selectors, Grandchild first.
C7_Witness ==
    /\ stack /= <<>>
    /\ PassDone(Top)
    /\ Top.value /= Top.prev
    /\ \A b \in Bindings : lid[b] /= NoListener
    /\ lsel["Counter"] /= lsel["Grandchild"]
    /\ IndexOf(listeners, lid["Grandchild"]) < IndexOf(listeners, lid["Counter"])

\* C6 (missing scope): a useGlobalStore call that finds no store throws; the
\* component is not mounted and owns no listener, and the step that throws
\* changes neither the store's state nor its listener set.
C6_MissingScope ==
    /\ [](\A b \in Bindings :
            /\ scope[b] = "null" => (thrown[b] /\ phase[b] = "unmounted" /\ lid[b] = NoListener)
            /\ thrown[b] => scope[b] = "null")
    /\ [][\A b \in Bindings :
            (scope'[b] = "null" /\ scope[b] /= "null") =>
                /\ thrown'[b]
                /\ storeState' = storeState
                /\ listeners' = listeners
                /\ handles' = handles
                /\ lid' = lid
                /\ phase' = phase
                /\ local' = local]_vars

\* A consumer outside any provider has thrown while the other one is attached.
C6_Witness ==
    /\ thrown["Grandchild"]
    /\ phase["Counter"] = "attached"
    /\ getState.count > 0

\* C11 (store handle), as stated: the handle carries subscribe, so a client
\* that holds only the handle registers a listener by store.subscribe(listener):
\* that call does not fail.
C11_HandleHasSubscribe == ~typeError

\* C11, amended: the handle carries getState, setState and useStore, and no
\* subscribe: a client's call store.subscribe(listener) throws and registers
\* nothing, so every registered listener is one a useStore effect registered
\* for its consumer, and the only way in through the handle is useStore.
C11_HandleInterface ==
    /\ [](/\ {"getState", "setState", "useStore"} \subseteq Handle
          /\ Range(listeners) \cap Listeners = {}
          /\ \A i \in 1..Len(listeners) : \E b \in Bindings : lid[b] = listeners[i])
    /\ [][typeError' /= typeError =>
              /\ typeError'
              /\ listeners' = listeners
              /\ handles' = handles
              /\ storeState' = storeState]_vars

\* A client's subscribe through the handle has thrown while both consumers
\* are registered through useStore.
C11_Witness ==
    /\ typeError
    /\ Len(listeners) = 2
    /\ getState.count > 0

\* C12 (shared store across the tree): Counter and Grandchild read the count
\* through useGlobalStore((state) => state.count) under one StoreProvider.
\* Whenever no click is being processed, every mounted consumer whose listener
\* selects the count shows store.getState().count, so Counter, Grandchild and
\* the store agree, after any sequence of increments and resets.
C12_SharedStore ==
    Idle => \A b \in Bindings :
                (phase[b] \in {"attached", "stale"} /\ lsel[b] = "count") =>
                    local[b] = Num(getState.count)

\* Both components are attached with the count selector after two increments.
C12_Witness ==
    /\ Idle
    /\ \A b \in Bindings : phase[b] = "attached" /\ lsel[b] = "count" /\ local[b] = Num(2)
    /\ getState.count = 2

\* C13 (selective re-render): a write that leaves selector(state) unchanged
\* causes no re-render of the component bound with that selector: no listener
\* called by such a write makes React schedule a re-render of its consumer.
C13_SelectiveRerender ==
    \A i \in 1..Len(stack) : \A j \in 1..Len(stack[i].seen) :
        LET l == stack[i].seen[j].listener
        IN \A b \in Bindings :
              (lid[b] = l /\ Select(lsel[b], stack[i].prev) = Select(lsel[b], stack[i].value))
                  => b \notin scheduled

\* C14 (independent instances): with two stores from two createStore calls,
\* a setState, subscribe or unsubscribe on one changes neither the state nor
\* the listener set of the other and starts or advances no pass of the other;
\* a write on a store calls that store's own listeners and no others.
C14_Independent ==
    /\ [](/\ other.calls \in {<<>>, [i \in 1..Len(other.listeners) |->
                                       [listener |-> other.listeners[i], arg |-> other.storeState]]}
          /\ \A i \in 1..Len(stack) : \A j \in 1..Len(stack[i].seen) :
                  stack[i].seen[j].listener \in stack[i].atStart)
    /\ [][/\ other' /= other => (storeState' = storeState /\ listeners' = listeners /\ stack' = stack)
          /\ (storeState' /= storeState \/ listeners' /= listeners \/ stack' /= stack)
                 => other' = other]_vars

\* Both stores have listeners, not the same ones, hold different states, and
\* the second store's latest call was a write that notified its listeners
\* while a pass of the first store has called its own.
C14_Witness ==
    /\ other.calls /= <<>>
    /\ Range(other.listeners) /= Range(listeners)
    /\ \E l \in Listeners : l \in Range(other.listeners) /\ l \in Range(listeners)
    /\ other.storeState /= storeState
    /\ stack /= <<>>
    /\ Top.seen /= <<>>

\* C15 (detachment): when a consumer unmounts, or its effect re-runs for a
\* selector of a new identity, the unsubscribe function of its registered
\* listener is called in that step and had not been called before; from then
\* on that listener is out of the listener set and no pass calls it, while
\* every listener a consumer still owns is registered.
C15_Detachment ==
    /\ [](/\ dead \cap Range(listeners) = {}
          /\ \A b \in Bindings :
                lid[b] /= NoListener => (lid[b] \in Range(listeners) /\ lid[b] \notin dead)
          /\ \A i \in 1..Len(stack) : \A j \in 1..Len(stack[i].seen) :
                ~stack[i].seen[j].unsubscribed)
    /\ [][\A b \in Bindings :
              (lid[b] /= NoListener /\ lid'[b] /= lid[b]) =>
                  /\ lid[b] \notin dead
                  /\ lid[b] \in dead'
                  /\ lid[b] \notin Range(listeners')
                  /\ Len(listeners') = Len(listeners) - (IF lid'[b] = NoListener THEN 1 ELSE 0)]_vars

\* Counter was re-attached after a selector change, Grandchild has unmounted,
\* and a later write has completed its pass.
C15_Witness ==
    /\ lid["Counter"] = FirstListener("Counter") + 1
    /\ FirstListener("Counter") \in dead
    /\ phase["Grandchild"] = "unmounted"
    /\ FirstListener("Grandchild") \in dead
    /\ stack /= <<>>
    /\ PassDone(Top)
    /\ Top.seen /= <<>>

\* C16 (notification set fixed at pass start): when a write's pass is complete
\* the listeners it has called are exactly the listeners that were registered
\* when the pass began, each once, also when a listener subscribed or
\* unsubscribed itself or another listener from inside its callback.
C16_FixedNotificationSet ==
    (stack /= <<>> /\ PassDone(Top)) =>
        /\ {Top.seen[j].listener : j \in 1..Len(Top.seen)} = Top.atStart
        /\ \A l \in Top.atStart : CalledOnce(Top, l)

\* C17 (notification order): in every setState call the new state is in place
\* before the first listener is called, and the listeners are called in the
\* order in which they were registered: whenever the pass has called a and
\* later b, a was registered before b, whatever subscribes and unsubscribes
\* came before the call.
C17_NotificationOrder ==
    \A i \in 1..Len(stack) :
        LET f == stack[i]
        IN /\ getState = f.value
           /\ \A j \in 1..Len(f.seen) : f.seen[j].arg = f.value
           /\ \A j, k \in 1..Len(f.seen) :
                 j < k => <<f.seen[j].listener, f.seen[k].listener>> \in before
           /\ PassDone(f) => Len(f.seen) = Cardinality(f.atStart)

\* A listener was unsubscribed and subscribed again behind a younger one, and
\* a pass has then called the younger one first.
C17_Witness ==
    /\ stack /= <<>>
    /\ PassDone(Top)
    /\ Len(Top.seen) = 2
    /\ Top.seen[1].listener = 2
    /\ Top.seen[2].listener = 1
    /\ 1 \in called
    /\ Top.value /= Top.prev

\* C18 (double unsubscribe), as stated: a call of an unsubscribe function
\* that has been called before changes neither the store state nor the set of
\* registered listeners, whatever happened between the two calls.
C18_DoubleUnsubscribeNoOp ==
    [][\A l \in Listeners :
          UnsubscribeAgain(l) => (storeState' = storeState /\ listeners' = listeners)]_vars

\* C18, amended: a call of an unsubscribe function that has been called
\* before never changes the store state or a pass, and leaves the listener
\* set unchanged unless its listener has been subscribed again and is
\* registered at the time of the call: the function deletes by listener
\* reference, so it then removes that newer registration, and nothing else.
C18_DoubleUnsubscribe ==
    [][\A l \in Listeners :
          UnsubscribeAgain(l) =>
              /\ storeState' = storeState
              /\ stack' = stack
              /\ l \in dead => listeners' = listeners
              /\ l \notin dead =>
                    /\ l \in Range(listeners)
                    /\ l \notin Range(listeners')
                    /\ \A x \in Range(listeners) \ {l} : x \in Range(listeners')
                    /\ Len(listeners') = Len(listeners) - 1]_vars

\* An unsubscribe function has been called a second time while another
\* listener is registered and the state has moved on.
C18_Witness ==
    /\ repeat /= NoListener
    /\ repeat \in dead
    /\ listeners /= <<>>
    /\ getState.count > 0

\* C19 (no equality check on write): every setState call runs one pass of its
\* own, also when the state it commits equals the previous one: when the pass
\* is complete every listener registered at its start has been called once,
\* and a listener registered since before the first call has been called as
\* many times as setState has been called.
C19_NoEqualityCheck ==
    /\ Len(stack) <= 1
    /\ (stack /= <<>> /\ PassDone(Top)) =>
           /\ \A l \in Top.atStart : CalledOnce(Top, l)
           /\ Len(Top.seen) = Cardinality(Top.atStart)
    /\ \A l \in fromStart :
           /\ Idle => Len(received[l]) = writes
           /\ Len(received[l]) \in {writes - 1, writes}

\* Two resets of a count that was 0 already: both notified the listeners.
C19_Witness ==
    /\ Idle
    /\ writes = 2
    /\ s0 = [count |-> 0]
    /\ Cardinality(fromStart) >= 2
    /\ \A l \in fromStart : received[l] = <<[count |-> 0], [count |-> 0]>>

\* C20 (listener identity is deduplicated): subscribing a listener that is
\* registered already leaves the listener set as it is, so the set never holds
\* a listener twice and a pass calls it once, not twice; one call of an
\* unsubscribe function of such a listener removes it completely.
C20_Deduplicated ==
    /\ [](/\ Cardinality(Range(listeners)) = Len(listeners)
          /\ twice \subseteq Range(listeners)
          /\ \A i \in 1..Len(stack) :
                /\ \A j, k \in 1..Len(stack[i].seen) :
                      stack[i].seen[j].listener = stack[i].seen[k].listener => j = k
                /\ PassDone(stack[i]) => \A l \in stack[i].atStart : CalledOnce(stack[i], l))
    /\ [][\A l \in Listeners :
              /\ (l \in twice' /\ l \notin twice) => listeners' = listeners
              /\ (l \in twice /\ l \notin twice') =>
                    (l \notin Range(listeners') /\ Len(listeners') = Len(listeners) - 1)]_vars

\* A listener was subscribed twice and a complete pass has called it and
\* another listener.
C20_Witness ==
    /\ stack /= <<>>
    /\ PassDone(Top)
    /\ Len(Top.seen) = 2
    /\ Top.seen[1].listener \in twice
    /\ Top.value /= Top.prev

\* C21 (no memoization): when a write's pass is complete, every consumer with
\* a registered listener has had its selector run on the new state and the
\* result handed to setStateLocal in this pass, also when the selected value
\* is the one it held before the write.
C21_NoMemoization ==
    (stack /= <<>> /\ PassDone(Top)) =>
        \A b \in Bindings :
            lid[b] /= NoListener =>
                /\ b \in handed
                /\ CalledOnce(Top, lid[b])
                /\ local[b] = Select(lsel[b], Top.value)

\* A reset of a count that was 0 already has reached both consumers, one
\* selecting the count and one the whole state.
C21_Witness ==
    /\ stack /= <<>>
    /\ PassDone(Top)
    /\ IsReset(Top)
    /\ Top.prev.count = 0
    /\ handed = Bindings
    /\ lsel["Counter"] = "count"
    /\ lsel["Grandchild"] = "identity"

\* C22 (no listener leak): whenever no effect is pending (every consumer is
\* unmounted, or attached with the effect of its latest render run), the
\* store holds exactly one listener per attached consumer: the listener set is
\* the set of the attached consumers' own listeners, these are pairwise
\* different, and an unmounted consumer owns none.
C22_NoListenerLeak ==
    (\A b \in Bindings : phase[b] \in {"unmounted", "attached"}) =>
        LET attached == {b \in Bindings : phase[b] = "attached"}
        IN /\ Len(listeners) = Cardinality(attached)
           /\ Range(listeners) = {lid[b] : b \in attached}
           /\ \A b \in attached : lid[b] /= NoListener
           /\ \A a, b \in attached : lid[a] = lid[b] => a = b
           /\ \A b \in Bindings \ attached : lid[b] = NoListener

\* Counter has been re-attached for a new selector identity, Grandchild was
\* attached and has unmounted, and the count has been written.
C22_Witness ==
    /\ Idle
    /\ phase["Counter"] = "attached"
    /\ lid["Counter"] = FirstListener("Counter") + 1
    /\ FirstListener("Counter") \in dead
    /\ phase["Grandchild"] = "unmounted"
    /\ FirstListener("Grandchild") \in dead
    /\ Len(listeners) = 1
    /\ getState.count > 0

\* C23 (failing updater): a setState call whose updater throws changes neither
\* the store state nor the listener set and begins no pass, so no listener is
\* called for it; the writes after it run as usual: each commits what it was
\* asked for and calls every listener registered at its start once, with that
\* state.
C23_FailingUpdater ==
    /\ [](/\ \A i \in 1..Len(stack) : stack[i].u /= ThrowingUpdater
          /\ (failed /\ stack /= <<>> /\ PassDone(Top)) =>
                 /\ getState = Requested(Top.u, Top.prev)
                 /\ GivenOnly(Top, getState)
                 /\ \A l \in Top.atStart : CalledOnce(Top, l))
    /\ [][failed' /= failed =>
              /\ failed'
              /\ storeState' = storeState
              /\ listeners' = listeners
              /\ stack' = stack
              /\ handles' = handles
              /\ dead' = dead]_vars

\* After a failed call, a later write has changed the state and notified
\* both listeners.
C23_Witness ==
    /\ failed
    /\ stack /= <<>>
    /\ PassDone(Top)
    /\ Len(Top.seen) = 2
    /\ Top.value /= Top.prev

====
